---- MODULE Spec2Model ----
(***************************************************************************)
(* A model of @jmondi/browser-storage: the storage facades                 *)
(* (BrowserStorage, AsyncBrowserStorage), the serialization contract       *)
(* (toStore / fromStore over a pluggable Serializer) and the in-memory     *)
(* adapter (MemoryStorageAdapter, a JavaScript Map).                       *)
(*                                                                         *)
(* One behaviour is the life of one facade: Init is the state right after  *)
(* the constructor ran (the kind of facade, its prefix and its serializer  *)
(* are the constructor's arguments and never change), every later step is  *)
(* one call on the facade, one resumption of a suspended async call, or    *)
(* one write made directly on the adapter behind the facade's back.        *)
(***************************************************************************)
EXTENDS Integers, Sequences, FiniteSets, Bags, TLC

(***************************************************************************)
(* Bounds of the model.                                                    *)
(***************************************************************************)
\* how many async pop() calls may be suspended at the same time
MaxTasks == 1
\* how many async pop() calls may be suspended at the same time where pop()
\* calls race each other
MaxRacingPops == 2
\* how many setCache / removeCache calls may run while one syncCache() is
\* suspended
MaxDisturb == 2

(***************************************************************************)
(* JavaScript values.  Every value is a record of the same shape so that   *)
(* any two values can be compared: t is the typeof tag (with "null" for    *)
(* null), n the number or boolean payload, s the string payload or the     *)
(* member name of an object, f the member value of an object (<<>> for an  *)
(* object without members).                                                *)
(***************************************************************************)
Undefined == [t |-> "undefined", n |-> 0, s |-> "", f |-> <<>>]
Null == [t |-> "null", n |-> 0, s |-> "", f |-> <<>>]
Bool(b) == [t |-> "boolean", n |-> IF b THEN 1 ELSE 0, s |-> "", f |-> <<>>]
Num(n) == [t |-> "number", n |-> n, s |-> "", f |-> <<>>]
Str(s) == [t |-> "string", n |-> 0, s |-> s, f |-> <<>>]
Obj(k, v) == [t |-> "object", n |-> 0, s |-> k, f |-> <<v>>]
EmptyObj == [t |-> "object", n |-> 0, s |-> "", f |-> <<>>]

\* what a caller gets when an exception escapes the call
Exception == [t |-> "exception", n |-> 0, s |-> "", f |-> <<>>]

\* the outcome of a call that may throw: a returned value, or an exception
Return(v) == [threw |-> FALSE, v |-> v]
Throw == [threw |-> TRUE, v |-> Undefined]

(***************************************************************************)
(* The JSON codec (the default serializer), on the values above: null,     *)
(* booleans, non-negative integers, strings without quotes or backslashes  *)
(* and objects of at most one member.                                      *)
(***************************************************************************)
Digits == <<"0", "1", "2", "3", "4", "5", "6", "7", "8", "9">>

IsDigit(c) == \E i \in 1..10 : Digits[i] = c

DigitVal(c) == (CHOOSE i \in 1..10 : Digits[i] = c) - 1

RECURSIVE DecimalVal(_)
DecimalVal(s) ==
  IF Len(s) = 0 THEN 0
  ELSE 10 * DecimalVal(SubSeq(s, 1, Len(s) - 1)) + DigitVal(SubSeq(s, Len(s), Len(s)))

IsDecimal(s) ==
  /\ Len(s) > 0
  /\ \A i \in 1..Len(s) : IsDigit(SubSeq(s, i, i))
  /\ (Len(s) > 1 => SubSeq(s, 1, 1) # "0")

\* JSON.parse skips white space around a value
RECURSIVE Trim(_)
Trim(s) ==
  IF Len(s) > 0 /\ SubSeq(s, 1, 1) = " " THEN Trim(SubSeq(s, 2, Len(s)))
  ELSE IF Len(s) > 0 /\ SubSeq(s, Len(s), Len(s)) = " " THEN Trim(SubSeq(s, 1, Len(s) - 1))
  ELSE s

\* the text between two quotes holds neither a quote nor a backslash
IsPlainChars(s) ==
  \A i \in 1..Len(s) : SubSeq(s, i, i) # "\"" /\ SubSeq(s, i, i) # "\\"

IsQuoted(s) ==
  /\ Len(s) >= 2
  /\ SubSeq(s, 1, 1) = "\""
  /\ SubSeq(s, Len(s), Len(s)) = "\""
  /\ IsPlainChars(SubSeq(s, 2, Len(s) - 1))

\* the position of the quote that closes the string opened at position 1
ClosingQuote(s) ==
  IF \E i \in 2..Len(s) : SubSeq(s, i, i) = "\""
  THEN CHOOSE i \in 2..Len(s) :
         /\ SubSeq(s, i, i) = "\""
         /\ \A j \in 2..(i - 1) : SubSeq(s, j, j) # "\""
  ELSE 0

RECURSIVE JSONparse(_)
JSONparse(text) ==
  LET s == Trim(text) IN
  IF s = "null" THEN Return(Null)
  ELSE IF s = "true" THEN Return(Bool(TRUE))
  ELSE IF s = "false" THEN Return(Bool(FALSE))
  ELSE IF IsDecimal(s) THEN Return(Num(DecimalVal(s)))
  ELSE IF IsQuoted(s) THEN Return(Str(SubSeq(s, 2, Len(s) - 1)))
  ELSE IF Len(s) >= 2 /\ SubSeq(s, 1, 1) = "{" /\ SubSeq(s, Len(s), Len(s)) = "}"
  THEN LET body == Trim(SubSeq(s, 2, Len(s) - 1)) IN
       IF body = "" THEN Return(EmptyObj)
       ELSE IF SubSeq(body, 1, 1) # "\"" THEN Throw
       ELSE LET q == ClosingQuote(body) IN
            IF q = 0 THEN Throw
            ELSE LET name == SubSeq(body, 2, q - 1)
                     rest == Trim(SubSeq(body, q + 1, Len(body)))
                 IN IF ~IsPlainChars(name) THEN Throw
                    ELSE IF Len(rest) < 2 \/ SubSeq(rest, 1, 1) # ":" THEN Throw
                    ELSE LET member == JSONparse(SubSeq(rest, 2, Len(rest))) IN
                         IF member.threw THEN Throw
                         ELSE Return(Obj(name, member.v))
  ELSE Throw

RECURSIVE JSONstringify(_)
JSONstringify(v) ==
  CASE v.t = "null" -> "null"
    [] v.t = "boolean" -> IF v.n = 1 THEN "true" ELSE "false"
    [] v.t = "number" -> ToString(v.n)
    [] v.t = "string" -> "\"" \o v.s \o "\""
    [] v.t = "object" ->
         IF v.f = <<>> THEN "{}"
         ELSE "{\"" \o v.s \o "\":" \o JSONstringify(v.f[1]) \o "}"

(***************************************************************************)
(* The inputs of the model.                                                *)
(***************************************************************************)
Keys == {"a", "b"}

Prefixes == {"", "ns:"}

\* the values handed to set(): no value at all, null, a number, a string no
\* parser accepts, a string that is the text of that number, and an object
Values ==
  {Undefined, Null, Num(1), Str("hi"), Str("1"), Obj("m", Str("hi"))}

\* what becomes of adapter.setItem: it stores the text, it throws, or (an
\* async adapter) it returns a promise that rejects
SetItemOutcomes == {"ok", "throws", "rejects"}

\* adapter.setItem called directly on the adapter, not through the facade
DirectKeys == {"a"}

DirectTexts == {"wrong"}

\* the values handed to set() where one value of a kind is enough: a string
\* no parser accepts; that string and a number, which goes through stringify
TextValues == {Str("hi")}

PlainValues == {Str("hi"), Num(1)}

\* every value the model's calls hand to JSON.stringify, with the text it
\* makes of it, computed once
KnownValues == (Values \ {Undefined}) \cup {Null}

JSONstringified == [v \in KnownValues |-> JSONstringify(v)]

\* every text the model's calls can put into the adapter, with what JSON.parse
\* makes of it, computed once
KnownTexts ==
  {JSONstringified[v] : v \in {x \in KnownValues : x.t # "string"}}
    \cup {v.s : v \in {x \in Values : x.t = "string"}}
    \cup DirectTexts

JSONparsed == [text \in KnownTexts |-> JSONparse(text)]

(***************************************************************************)
(* The serializers a facade is constructed with.                           *)
(*   "JSON"        the default;                                            *)
(*   "parseThrows" JSON whose parse was replaced by a function that        *)
(*                 throws, stringify untouched;                            *)
(*   "stub"        { ...JSON } with a throwing parse: JSON's members are   *)
(*                 not enumerable, so the spread copies nothing and the    *)
(*                 object has no stringify: calling it throws a TypeError. *)
(***************************************************************************)
Serializers == {"JSON", "parseThrows", "stub"}

(***************************************************************************)
(* A custom serializer, the SuperJsonSerializer of the README: stringify   *)
(* wraps the value, { json: value }, and makes JSON text of that; parse    *)
(* reads JSON text and unwraps it, which throws when the text is not JSON  *)
(* or holds null, and gives undefined when there is no member json.        *)
(***************************************************************************)
CustomSerializers == {"SuperJson"}

SuperJsonStringify(v) == "{\"json\":" \o JSONstringify(v) \o "}"

SuperJsonParse(text) ==
  LET payload == JSONparse(text) IN
  IF payload.threw \/ payload.v.t = "null" THEN Throw
  ELSE IF payload.v.t = "object" /\ payload.v.f # <<>> /\ payload.v.s = "json"
  THEN Return(payload.v.f[1])
  ELSE Return(Undefined)

parse(ser, text) ==
  IF ser = "SuperJson" THEN SuperJsonParse(text)
  ELSE IF ser # "JSON" THEN Throw
  ELSE IF text \in KnownTexts THEN JSONparsed[text]
  ELSE JSONparse(text)

stringify(ser, v) ==
  IF ser = "SuperJson" THEN Return(Str(SuperJsonStringify(v)))
  ELSE IF ser = "stub" THEN Throw
  ELSE IF v \in KnownValues THEN Return(Str(JSONstringified[v]))
  ELSE Return(Str(JSONstringify(v)))

(***************************************************************************)
(* The adapter the facade is built on (MemoryStorageAdapter by default):   *)
(* a Map<string, string>, kept as the function from the keys it holds to   *)
(* their texts.  getItem, setItem, removeItem and clear are all the facade *)
(* calls on it, and none of them observes the order of the entries.        *)
(***************************************************************************)
EmptyMap == [k \in {} |-> ""]

MapHas(m, k) == k \in DOMAIN m

MapSet(m, k, text) == [x \in DOMAIN m \cup {k} |-> IF x = k THEN text ELSE m[x]]

MapDelete(m, k) == [x \in DOMAIN m \ {k} |-> m[x]]

\* getItem: storage.get(key) ?? null
getItem(m, k) == IF MapHas(m, k) THEN Str(m[k]) ELSE Null

setItem(m, k, text) == MapSet(m, k, text)

removeItem(m, k) == MapDelete(m, k)

clearItems(m) == EmptyMap

(***************************************************************************)
(* AbstractBrowserStorage.toStore / fromStore.                             *)
(***************************************************************************)
\* toStore without its case for undefined: the value is turned into text as
\* String(value) does
toStore_noUndefinedCase(ser, value) ==
  CASE value.t = "string" -> Return(value)
    [] value.t = "undefined" -> Return(Str("undefined"))
    [] OTHER -> stringify(ser, value)

toStore(ser, value) ==
  CASE value.t = "string" -> Return(value)
    [] value.t = "undefined" -> stringify(ser, Null)
    [] OTHER -> stringify(ser, value)

\* the items fromStore hands to serializer.parse: every string but "null"
callsParse(item) == item # Str("null") /\ item.t = "string"

\* fromStore that never parses
fromStore_noParse(ser, item) ==
  IF ~callsParse(item) THEN Null ELSE item

\* fromStore that answers undefined for an item that is not a string
fromStore_undefinedWhenAbsent(ser, item) ==
  IF item = Str("null") THEN Null
  ELSE IF item.t # "string" THEN Undefined
  ELSE LET parsed == parse(ser, item.s) IN
       IF ~parsed.threw THEN parsed.v
       ELSE item

\* fromStore that answers null when parse throws
fromStore_nullOnError(ser, item) ==
  IF ~callsParse(item) THEN Null
  ELSE LET parsed == parse(ser, item.s) IN
       IF ~parsed.threw THEN parsed.v
       ELSE Null

\* fromStore without its try/catch
fromStore_noCatch(ser, item) ==
  IF ~callsParse(item) THEN Null
  ELSE LET parsed == parse(ser, item.s) IN
       IF ~parsed.threw THEN parsed.v
       ELSE Exception

fromStore(ser, item) ==
  IF ~callsParse(item) THEN Null
  ELSE LET parsed == parse(ser, item.s) IN
       IF ~parsed.threw THEN parsed.v
       ELSE item

\* no value: the key holds nothing that a set() of the facade wrote
None == [t |-> "none", n |-> 0, s |-> "", f |-> <<>>]

(***************************************************************************)
(* State.                                                                  *)
(*   kind        "sync" for a BrowserStorage, "async" for an               *)
(*               AsyncBrowserStorage                                       *)
(*   prefix, serializer   the facade's readonly fields                     *)
(*   storage     the Map of the adapter the facade is built on             *)
(*   pops        the async pop() calls suspended at their first await,     *)
(*               after adapter.getItem and before adapter.removeItem: a    *)
(*               bag of the key and of the item each has read              *)
(*   last        the call that returned (or resolved) last, on the facade  *)
(*               or ("setItem") on the adapter itself: its operation,      *)
(*               key, result, and what became of adapter.setItem ("none"   *)
(*               when the call has no setItem, "notcalled" when toStore    *)
(*               threw first)                                              *)
(*   written     history: for each key, the value given to the latest      *)
(*               set(key, value) that reached the adapter, while the entry *)
(*               it wrote is still in place (None otherwise)               *)
(*   hasClear    whether the adapter has the optional clear method         *)
(*   prefix2     the prefix of a second facade built on the same adapter   *)
(*   via         how the last call was made: on the facade itself, or the  *)
(*               name of the handle (define, defineGroup) it went through  *)
(*   call        the adapter method called last by a facade: its name, the *)
(*               key it was given, the key the facade's caller supplied,   *)
(*               and (setItem) its third argument; where the serializer's  *)
(*               calls are followed, "parse" and the text it was given     *)
(*   cache       AsyncBrowserStorage.cachedAdapter: the entries of its     *)
(*               Map, in the Map's iteration order                         *)
(*   sync        the syncCache() call in progress: where it stands, how    *)
(*               many entries its iterator has passed, and the setItem     *)
(*               calls it has issued                                       *)
(*   window      the runtime's window.localStorage / sessionStorage: what  *)
(*               reading it gives and the entries it holds                 *)
(*   built       what the facade's adapter is: "given" (config.adapter),   *)
(*               "memory" (a new MemoryStorageAdapter), "window", or       *)
(*               "none" before the constructor ran                         *)
(*   other       the in-memory state of a second facade instance: the Map  *)
(*               of the MemoryStorageAdapter its constructor made, its     *)
(*               overlay and its syncCache() call in progress              *)
(***************************************************************************)
VARIABLES kind, prefix, serializer, storage, pops, last, written,
          hasClear, prefix2, via, call, cache, sync, window, built, other

vars == <<kind, prefix, serializer, storage, pops, last, written,
          hasClear, prefix2, via, call, cache, sync, window, built, other>>

config == <<kind, prefix, serializer>>

\* what get, set, remove, pop and clear of one facade leave alone
aside == <<hasClear, prefix2, via, call, cache, sync, window, built, other>>

NoAdapterCall == [method |-> "none", key |-> "", caller |-> "", config |-> Undefined]

AdapterCall(method, pk, k, c) == [method |-> method, key |-> pk, caller |-> k, config |-> c]

\* no syncCache() in progress
Idle ==
  [state |-> "idle", pos |-> 0, inflight |-> 0, issued |-> <<>>,
   at |-> <<>>, disturbs |-> 0]

\* a runtime without window
NoWindow == [access |-> "throws", items |-> EmptyMap]

\* a second facade instance right after its constructor ran
NewInstance == [storage |-> EmptyMap, cache |-> <<>>, sync |-> Idle]

\* the state of what a single facade built on a given adapter does not use
Unused ==
  /\ hasClear = TRUE
  /\ prefix2 = prefix
  /\ via = "facade"
  /\ call = NoAdapterCall
  /\ cache = <<>>
  /\ sync = Idle
  /\ window = NoWindow
  /\ built = "given"
  /\ other = NewInstance

NoCall == [op |-> "none", key |-> "", ret |-> Undefined, adapter |-> "none"]

Returned(op, k, ret, adapter) ==
  [op |-> op, key |-> k, ret |-> ret, adapter |-> adapter]

\* written, once the entry at the adapter's key pk was replaced or deleted
Forget(w, pk) == [k \in Keys |-> IF prefix \o k = pk THEN None ELSE w[k]]

Init ==
  /\ kind \in {"sync", "async"}
  /\ prefix \in Prefixes
  /\ serializer \in Serializers
  /\ storage = EmptyMap
  /\ pops = EmptyBag
  /\ last = NoCall
  /\ written = [k \in Keys |-> None]
  /\ Unused

(***************************************************************************)
(* What the methods shared by both facades do to the adapter and return.   *)
(***************************************************************************)
\* get that reads the key without the prefix
get_noPrefix(k) == fromStore(serializer, getItem(storage, k))

\* get(key): fromStore(adapter.getItem(prefix + key))
get(k) == fromStore(serializer, getItem(storage, prefix \o k))

\* set without its try/catch around adapter.setItem
set_noCatch(k, value, outcome) ==
  LET text == toStore(serializer, value) IN
  IF text.threw
  THEN /\ last' = Returned("set", k, Bool(FALSE), "notcalled")
       /\ UNCHANGED <<storage, written>>
  ELSE IF outcome # "ok"
  THEN /\ last' = Returned("set", k, Exception, outcome)
       /\ UNCHANGED <<storage, written>>
  ELSE /\ storage' = setItem(storage, prefix \o k, text.v.s)
       /\ written' = [written EXCEPT ![k] = value]
       /\ last' = Returned("set", k, Bool(TRUE), "ok")

\* set that computes toStore(value) before it enters its try block
set_toStoreOutsideTry(k, value, outcome) ==
  LET text == toStore(serializer, value) IN
  IF text.threw
  THEN /\ last' = Returned("set", k, Exception, "notcalled")
       /\ UNCHANGED <<storage, written>>
  ELSE IF outcome # "ok"
  THEN /\ last' = Returned("set", k, Bool(FALSE), outcome)
       /\ UNCHANGED <<storage, written>>
  ELSE /\ storage' = setItem(storage, prefix \o k, text.v.s)
       /\ written' = [written EXCEPT ![k] = value]
       /\ last' = Returned("set", k, Bool(TRUE), "ok")

\* set(key, value): toStore(value) is an argument of adapter.setItem, so it
\* runs first and adapter.setItem is not called when it throws; every
\* exception and every rejection is swallowed
set(k, value, outcome) ==
  LET text == toStore(serializer, value) IN
  IF text.threw
  THEN /\ last' = Returned("set", k, Bool(FALSE), "notcalled")
       /\ UNCHANGED <<storage, written>>
  ELSE IF outcome # "ok"
  THEN /\ last' = Returned("set", k, Bool(FALSE), outcome)
       /\ UNCHANGED <<storage, written>>
  ELSE /\ storage' = setItem(storage, prefix \o k, text.v.s)
       /\ written' = [written EXCEPT ![k] = value]
       /\ last' = Returned("set", k, Bool(TRUE), "ok")

remove(k) ==
  /\ storage' = removeItem(storage, prefix \o k)
  /\ written' = Forget(written, prefix \o k)

\* clear that removes the keys of the facade's prefix only
clear_ownKeys ==
  IF hasClear
  THEN /\ storage' = [x \in DOMAIN storage \ {prefix \o k : k \in Keys} |-> storage[x]]
       /\ written' = [k \in Keys |-> None]
  ELSE UNCHANGED <<storage, written>>

\* clear(): this.adapter.clear?.()
clear ==
  IF hasClear
  THEN /\ storage' = clearItems(storage)
       /\ written' = [k \in Keys |-> None]
  ELSE UNCHANGED <<storage, written>>

(***************************************************************************)
(* BrowserStorage.                                                         *)
(***************************************************************************)
Get(k) ==
  /\ kind = "sync"
  /\ last' = Returned("get", k, get(k), "none")
  /\ UNCHANGED <<config, aside, storage, pops, written>>

Set(k, value, outcome) ==
  /\ kind = "sync"
  /\ outcome \in {"ok", "throws"}
  /\ set(k, value, outcome)
  /\ UNCHANGED <<config, aside, pops>>

Remove(k) ==
  /\ kind = "sync"
  /\ remove(k)
  /\ last' = Returned("remove", k, Undefined, "none")
  /\ UNCHANGED <<config, aside, pops>>

\* pop that removes the key before it reads it
Pop_removeFirst(k) ==
  /\ kind = "sync"
  /\ remove(k)
  /\ last' = Returned("pop", k, Null, "none")
  /\ UNCHANGED <<config, aside, pops>>

Pop(k) ==
  /\ kind = "sync"
  /\ remove(k)
  /\ last' = Returned("pop", k, get(k), "none")
  /\ UNCHANGED <<config, aside, pops>>

Clear ==
  /\ kind = "sync"
  /\ clear
  /\ last' = Returned("clear", "", Undefined, "none")
  /\ UNCHANGED <<config, aside, pops>>

(***************************************************************************)
(* AsyncBrowserStorage.  Every method calls the adapter at once, inside    *)
(* the call, and awaits the promise it gets.  get, set, remove and clear   *)
(* do nothing after their await but resolve, so each is one step; pop      *)
(* awaits get and calls adapter.removeItem only when it is resumed, so it  *)
(* is two steps and other calls run in between.                            *)
(***************************************************************************)
AsyncGet(k) ==
  /\ kind = "async"
  /\ last' = Returned("get", k, get(k), "none")
  /\ UNCHANGED <<config, aside, storage, pops, written>>

AsyncSet(k, value, outcome) ==
  /\ kind = "async"
  /\ set(k, value, outcome)
  /\ UNCHANGED <<config, aside, pops>>

AsyncRemove(k) ==
  /\ kind = "async"
  /\ remove(k)
  /\ last' = Returned("remove", k, Undefined, "none")
  /\ UNCHANGED <<config, aside, pops>>

AsyncClear ==
  /\ kind = "async"
  /\ clear
  /\ last' = Returned("clear", "", Undefined, "none")
  /\ UNCHANGED <<config, aside, pops>>

\* const item = await this.get(key)
AsyncPopCall(k) ==
  /\ kind = "async"
  /\ BagCardinality(pops) < MaxTasks
  /\ pops' = pops (+) SetToBag({[key |-> k, item |-> get(k)]})
  /\ UNCHANGED <<config, aside, storage, last, written>>

\* pop that reads the key again when it is resumed, right before it removes it
AsyncPopResume_readAtRemove(p) ==
  /\ kind = "async"
  /\ BagIn(p, pops)
  /\ pops' = pops (-) SetToBag({p})
  /\ remove(p.key)
  /\ last' = Returned("pop", p.key, get(p.key), "none")
  /\ UNCHANGED <<config, aside>>

\* await this.remove(key); return item
AsyncPopResume(p) ==
  /\ kind = "async"
  /\ BagIn(p, pops)
  /\ pops' = pops (-) SetToBag({p})
  /\ remove(p.key)
  /\ last' = Returned("pop", p.key, p.item, "none")
  /\ UNCHANGED <<config, aside>>

(***************************************************************************)
(* The adapter, used without the facade.                                   *)
(***************************************************************************)
DirectSetItem(pk, text) ==
  /\ storage' = setItem(storage, pk, text)
  /\ written' = Forget(written, pk)
  /\ last' = Returned("setItem", pk, Undefined, "ok")
  /\ UNCHANGED <<config, aside, pops>>

Next ==
  \/ \E k \in Keys : Get(k)
  \/ \E k \in Keys, value \in Values, outcome \in SetItemOutcomes : Set(k, value, outcome)
  \/ \E k \in Keys : Remove(k)
  \/ \E k \in Keys : Pop(k)
  \/ Clear
  \/ \E k \in Keys : AsyncGet(k)
  \/ \E k \in Keys, value \in Values, outcome \in SetItemOutcomes : AsyncSet(k, value, outcome)
  \/ \E k \in Keys : AsyncRemove(k)
  \/ \E k \in Keys : AsyncPopCall(k)
  \/ \E p \in BagToSet(pops) : AsyncPopResume(p)
  \/ AsyncClear
  \/ \E pk \in DirectKeys, text \in DirectTexts : DirectSetItem(pk, text)

Spec == Init /\ [][Next]_vars

(***************************************************************************)
(* define and defineGroup.  A handle is the object define returns: four    *)
(* properties get, set, remove and pop, each a closure over the arguments  *)
(* of define (and over the facade).  A closure is modelled by what it      *)
(* captured.                                                               *)
(***************************************************************************)
\* the configs handed to set() and to define() as the adapter's SetConfig
Configs == {Undefined, Null, Bool(FALSE), Obj("config", Str("test"))}

\* config || defaultConfig
Coalesce_orFalsy(c, d) == IF c \in {Null, Undefined, Bool(FALSE)} THEN d ELSE c

\* config ?? defaultConfig
Coalesce(c, d) == IF c \in {Null, Undefined} THEN d ELSE c

define(key, defaultConfig) ==
  [get    |-> [key |-> key],
   set    |-> [key |-> key, defaultConfig |-> defaultConfig],
   remove |-> [key |-> key],
   pop    |-> [key |-> key]]

\* defineGroup that defines each handle on its logical name
defineGroup_byName(group) ==
  [name \in DOMAIN group |-> define(name, Undefined)]

\* Object.keys(group).reduce(...): one property per name of the group,
\* holding define(group[name])
defineGroup(group) ==
  [name \in DOMAIN group |-> define(group[name], Undefined)]

\* reading property name of a handle
Property(h, name) == IF name \in DOMAIN h THEN h[name] ELSE Undefined

\* the group the model defines: two of its names are mapped to the same key
Group == [token |-> "a", alias |-> "a"]

\* the default config of the handle the model builds with define
DefaultConfig == Obj("config", Str("test"))

\* the handles in use: GROUP = defineGroup(Group), and one handle made by
\* define with a default config
GROUP == defineGroup(Group)

Handles ==
  [n \in DOMAIN Group \cup {"defined"} |->
     IF n = "defined" THEN define("b", DefaultConfig) ELSE GROUP[n]]

HandleNames == DOMAIN Handles

\* the values handed to set() where handles, two facades or a window backend
\* are in use
DefineValues == {Str("hi"), Obj("m", Str("hi"))}

\* what becomes of adapter.setItem where handles are in use
DefineOutcomes == {"ok", "throws"}

\* the third argument of adapter.setItem, when set gets as far as calling it
setCall(k, value, c) ==
  IF toStore(serializer, value).threw
  THEN UNCHANGED call
  ELSE call' = AdapterCall("setItem", prefix \o k, k, c)

\* what a call leaves alone but for via and call
asideOfCall == <<hasClear, prefix2, cache, sync, window, built, other>>

\* facade.get(k), facade.set(k, value, c), facade.remove(k), facade.pop(k),
\* on either facade
FacadeGet(k) ==
  /\ last' = Returned("get", k, get(k), "none")
  /\ via' = "facade"
  /\ call' = AdapterCall("getItem", prefix \o k, k, Undefined)
  /\ UNCHANGED <<config, storage, pops, written, asideOfCall>>

FacadeSet(k, value, c, outcome) ==
  /\ via' = "facade"
  /\ setCall(k, value, c)
  /\ set(k, value, outcome)
  /\ UNCHANGED <<config, pops, asideOfCall>>

\* remove that takes every entry of the facade's prefix out of the adapter
FacadeRemove_everyKey(k) ==
  /\ storage' = [x \in DOMAIN storage \ {prefix \o c : c \in Keys} |-> storage[x]]
  /\ written' = [c \in Keys |-> None]
  /\ last' = Returned("remove", k, Undefined, "none")
  /\ via' = "facade"
  /\ call' = AdapterCall("removeItem", prefix \o k, k, Undefined)
  /\ UNCHANGED <<config, pops, asideOfCall>>

FacadeRemove(k) ==
  /\ remove(k)
  /\ last' = Returned("remove", k, Undefined, "none")
  /\ via' = "facade"
  /\ call' = AdapterCall("removeItem", prefix \o k, k, Undefined)
  /\ UNCHANGED <<config, pops, asideOfCall>>

\* the sync pop; the async pop as far as its first await
FacadePop(k) ==
  /\ via' = "facade"
  /\ IF kind = "sync"
     THEN /\ remove(k)
          /\ last' = Returned("pop", k, get(k), "none")
          /\ call' = AdapterCall("removeItem", prefix \o k, k, Undefined)
          /\ UNCHANGED <<config, pops, asideOfCall>>
     ELSE /\ BagCardinality(pops) < MaxTasks
          /\ pops' = pops (+) SetToBag({[key |-> k, item |-> get(k)]})
          /\ call' = AdapterCall("getItem", prefix \o k, k, Undefined)
          /\ UNCHANGED <<config, storage, last, written, asideOfCall>>

\* the async pop from its first await on
PopResume(p) ==
  /\ kind = "async"
  /\ BagIn(p, pops)
  /\ pops' = pops (-) SetToBag({p})
  /\ remove(p.key)
  /\ last' = Returned("pop", p.key, p.item, "none")
  /\ call' = AdapterCall("removeItem", prefix \o p.key, p.key, Undefined)
  /\ UNCHANGED <<config, via, asideOfCall>>

\* h.get(), h.set(value, c), h.remove(), h.pop() for the handle h named n
HandleGet(n) ==
  LET k == Handles[n].get.key IN
  /\ last' = Returned("get", k, get(k), "none")
  /\ via' = n
  /\ call' = AdapterCall("getItem", prefix \o k, k, Undefined)
  /\ UNCHANGED <<config, storage, pops, written, asideOfCall>>

HandleSet(n, value, c, outcome) ==
  LET h == Handles[n].set IN
  /\ via' = n
  /\ setCall(h.key, value, Coalesce(c, h.defaultConfig))
  /\ set(h.key, value, outcome)
  /\ UNCHANGED <<config, pops, asideOfCall>>

HandleRemove(n) ==
  LET k == Handles[n].remove.key IN
  /\ remove(k)
  /\ last' = Returned("remove", k, Undefined, "none")
  /\ via' = n
  /\ call' = AdapterCall("removeItem", prefix \o k, k, Undefined)
  /\ UNCHANGED <<config, pops, asideOfCall>>

HandlePop(n) ==
  LET k == Handles[n].pop.key IN
  /\ via' = n
  /\ IF kind = "sync"
     THEN /\ remove(k)
          /\ last' = Returned("pop", k, get(k), "none")
          /\ call' = AdapterCall("removeItem", prefix \o k, k, Undefined)
          /\ UNCHANGED <<config, pops, asideOfCall>>
     ELSE /\ BagCardinality(pops) < MaxTasks
          /\ pops' = pops (+) SetToBag({[key |-> k, item |-> get(k)]})
          /\ call' = AdapterCall("getItem", prefix \o k, k, Undefined)
          /\ UNCHANGED <<config, storage, last, written, asideOfCall>>

\* reading h.key
HandleKey(n) ==
  /\ last' = Returned("key", Handles[n].get.key, Property(Handles[n], "key"), "none")
  /\ via' = n
  /\ UNCHANGED <<config, storage, pops, written, call, asideOfCall>>

InitDefine ==
  /\ kind \in {"sync", "async"}
  /\ prefix \in Prefixes
  /\ serializer = "JSON"
  /\ storage = EmptyMap
  /\ pops = EmptyBag
  /\ last = NoCall
  /\ written = [k \in Keys |-> None]
  /\ Unused

NextDefine ==
  \/ \E k \in Keys : FacadeGet(k)
  \/ \E k \in Keys, value \in DefineValues, c \in Configs, outcome \in DefineOutcomes :
       FacadeSet(k, value, c, outcome)
  \/ \E k \in Keys : FacadeRemove(k)
  \/ \E k \in Keys : FacadePop(k)
  \/ \E p \in BagToSet(pops) : PopResume(p)
  \/ \E n \in HandleNames : HandleGet(n)
  \/ \E n \in HandleNames, value \in DefineValues, c \in Configs, outcome \in DefineOutcomes :
       HandleSet(n, value, c, outcome)
  \/ \E n \in HandleNames : HandleRemove(n)
  \/ \E n \in HandleNames : HandlePop(n)
  \/ \E n \in HandleNames : HandleKey(n)

SpecDefine == InitDefine /\ [][NextDefine]_vars

(***************************************************************************)
(* The overlay of AsyncBrowserStorage: cachedAdapter, a                    *)
(* MemoryStorageAdapter of its own, whose entries() syncCache iterates.    *)
(* Its Map is kept as the sequence of its entries in iteration order: a    *)
(* Map iterates in the order in which the keys were inserted, set on a key *)
(* it holds replaces the value in place, delete takes the entry out.       *)
(***************************************************************************)
OrderedIndex(m, k) ==
  IF \E i \in 1..Len(m) : m[i].key = k
  THEN CHOOSE i \in 1..Len(m) : m[i].key = k
  ELSE 0

\* Map.get(key) ?? null
OrderedGet(m, k) ==
  IF OrderedIndex(m, k) = 0 THEN Null ELSE Str(m[OrderedIndex(m, k)].value)

\* Map.set(key, value)
OrderedSet(m, k, text) ==
  IF OrderedIndex(m, k) = 0
  THEN Append(m, [key |-> k, value |-> text])
  ELSE [m EXCEPT ![OrderedIndex(m, k)] = [key |-> k, value |-> text]]

\* Map.delete(key)
OrderedDelete(m, k) == SelectSeq(m, LAMBDA e : e.key # k)

\* the texts handed to setCache: none, the empty string, and the text of a
\* number
CacheTexts == {Undefined, Str(""), Str("1")}

\* if (value): undefined and the empty string are falsy
Truthy(v) == v.t = "string" /\ v.s # ""

\* getCache(key)
getCache(k) == OrderedGet(cache, k)

\* a Map iterator is a position in the live Map: an entry deleted behind it
\* takes the position one back, entries appended are ahead of it
IteratorAfterDelete(pos, m, k) ==
  IF OrderedIndex(m, k) # 0 /\ OrderedIndex(m, k) <= pos THEN pos - 1 ELSE pos

\* a setCache or removeCache call that runs while syncCache is suspended
Disturbed(s) ==
  IF s.state = "awaiting" THEN [s EXCEPT !.disturbs = @ + 1] ELSE s

MayDisturb == sync.state = "awaiting" => sync.disturbs < MaxDisturb

asideOfCache == <<hasClear, prefix2, via, window, built, other>>

\* setCache that writes the entry through to the adapter as well
SetCache_writeThrough(k, v) ==
  /\ MayDisturb
  /\ cache' = IF Truthy(v) THEN OrderedSet(cache, k, v.s) ELSE cache
  /\ storage' = IF Truthy(v) THEN setItem(storage, k, v.s) ELSE storage
  /\ written' = IF Truthy(v) THEN Forget(written, k) ELSE written
  /\ sync' = Disturbed(sync)
  /\ last' = Returned("setCache", k, Undefined, "none")
  /\ UNCHANGED <<config, pops, call, asideOfCache>>

SetCache(k, v) ==
  /\ MayDisturb
  /\ cache' = IF Truthy(v) THEN OrderedSet(cache, k, v.s) ELSE cache
  /\ sync' = Disturbed(sync)
  /\ last' = Returned("setCache", k, Undefined, "none")
  /\ UNCHANGED <<config, storage, pops, written, call, asideOfCache>>

RemoveCache(k) ==
  /\ MayDisturb
  /\ cache' = OrderedDelete(cache, k)
  /\ sync' = [Disturbed(sync) EXCEPT !.pos = IteratorAfterDelete(@, cache, k)]
  /\ last' = Returned("removeCache", k, Undefined, "none")
  /\ UNCHANGED <<config, storage, pops, written, call, asideOfCache>>

GetCache(k) ==
  /\ last' = Returned("getCache", k, getCache(k), "none")
  /\ UNCHANGED <<config, storage, pops, written, call, cache, sync, asideOfCache>>

\* the write of syncCache inside a try/catch, as set has it: a failed write is
\* passed over and the loop goes on
issue_swallow(s, e, outcome) ==
  /\ call' = AdapterCall("setItem", e.key, e.key, Undefined)
  /\ IF outcome = "ok"
     THEN /\ storage' = setItem(storage, e.key, e.value)
          /\ written' = Forget(written, e.key)
     ELSE UNCHANGED <<storage, written>>
  /\ sync' = [s EXCEPT !.state = "awaiting", !.pos = @ + 1,
                       !.inflight = @ + 1, !.issued = Append(@, e)]

\* await this.adapter.setItem(key, value), for the entry e the iterator gave:
\* the adapter is called, with the overlay's key as it is, and the task is
\* suspended until the adapter's promise settles
issue(s, e, outcome) ==
  /\ call' = AdapterCall("setItem", e.key, e.key, Undefined)
  /\ IF outcome = "ok"
     THEN /\ storage' = setItem(storage, e.key, e.value)
          /\ written' = Forget(written, e.key)
          /\ sync' = [s EXCEPT !.state = "awaiting", !.pos = @ + 1,
                               !.inflight = @ + 1, !.issued = Append(@, e)]
     ELSE /\ UNCHANGED <<storage, written>>
          /\ sync' = [s EXCEPT !.state = "rejected", !.pos = @ + 1,
                               !.issued = Append(@, e)]

\* syncCache that starts every write without awaiting the one before
SyncCacheCall_noAwait(outcome) ==
  /\ sync.state # "awaiting"
  /\ outcome = "ok"
  /\ cache # <<>>
  /\ call' = AdapterCall("setItem", cache[Len(cache)].key, cache[Len(cache)].key, Undefined)
  /\ storage' = [x \in DOMAIN storage \cup {e.key : e \in {cache[i] : i \in 1..Len(cache)}} |->
                   IF OrderedIndex(cache, x) # 0 THEN cache[OrderedIndex(cache, x)].value
                   ELSE storage[x]]
  /\ written' = [k \in Keys |-> None]
  /\ sync' = [state |-> "awaiting", pos |-> Len(cache), inflight |-> Len(cache),
              issued |-> cache, at |-> cache, disturbs |-> 0]
  /\ UNCHANGED <<config, pops, last, cache, asideOfCache>>

\* syncCache(), as far as its first await: the iterator is made and asked for
\* its first entry
SyncCacheCall(outcome) ==
  /\ sync.state # "awaiting"
  /\ LET s == [Idle EXCEPT !.at = cache] IN
     IF cache = <<>>
     THEN /\ outcome = "ok"
          /\ sync' = [s EXCEPT !.state = "resolved"]
          /\ UNCHANGED <<storage, written, call>>
     ELSE issue(s, cache[1], outcome)
  /\ UNCHANGED <<config, pops, last, cache, asideOfCache>>

\* syncCache that empties the overlay once it has written every entry
SyncCacheResume_drains(outcome) ==
  /\ sync.state = "awaiting"
  /\ LET s == [sync EXCEPT !.inflight = @ - 1] IN
     IF sync.pos >= Len(cache)
     THEN /\ outcome = "ok"
          /\ sync' = [s EXCEPT !.state = "resolved"]
          /\ cache' = <<>>
          /\ UNCHANGED <<storage, written, call>>
     ELSE /\ issue(s, cache[sync.pos + 1], outcome)
          /\ UNCHANGED cache
  /\ UNCHANGED <<config, pops, last, asideOfCache>>

\* syncCache with one more await after its last write, on a promise that
\* nothing settles
SyncCacheResume_neverReturns(outcome) ==
  /\ sync.state = "awaiting"
  /\ LET s == [sync EXCEPT !.inflight = @ - 1] IN
     IF sync.pos >= Len(cache)
     THEN /\ outcome = "ok"
          /\ UNCHANGED <<sync, storage, written, call>>
     ELSE issue(s, cache[sync.pos + 1], outcome)
  /\ UNCHANGED <<config, pops, last, cache, asideOfCache>>

\* syncCache() resumed: the write it awaited has completed, the iterator is
\* asked for the next entry of the Map as it is now
SyncCacheResume(outcome) ==
  /\ sync.state = "awaiting"
  /\ LET s == [sync EXCEPT !.inflight = @ - 1] IN
     IF sync.pos >= Len(cache)
     THEN /\ outcome = "ok"
          /\ sync' = [s EXCEPT !.state = "resolved"]
          /\ UNCHANGED <<storage, written, call>>
     ELSE issue(s, cache[sync.pos + 1], outcome)
  /\ UNCHANGED <<config, pops, last, cache, asideOfCache>>

\* what becomes of the adapter.setItem calls of syncCache
SyncOutcomes == {"ok", "rejects"}

InitCache ==
  /\ kind = "async"
  /\ prefix \in Prefixes
  /\ serializer = "JSON"
  /\ storage = EmptyMap
  /\ pops = EmptyBag
  /\ last = NoCall
  /\ written = [k \in Keys |-> None]
  /\ Unused

NextCache ==
  \/ \E k \in Keys, v \in CacheTexts : SetCache(k, v)
  \/ \E k \in Keys : RemoveCache(k)
  \/ \E k \in Keys : GetCache(k)
  \/ \E outcome \in SyncOutcomes : SyncCacheCall(outcome)
  \/ \E outcome \in SyncOutcomes : SyncCacheResume(outcome)
  \/ \E k \in Keys : FacadeGet(k)

SpecCache == InitCache /\ [][NextCache]_vars

(***************************************************************************)
(* syncCache on an adapter whose setItem calls all complete, with an       *)
(* overlay that is written between the syncCache() calls only: the         *)
(* promise of every adapter.setItem call is fulfilled in the end, which    *)
(* resumes the syncCache that awaits it.                                   *)
(***************************************************************************)
\* the overlay is written between the syncCache() calls, not during one
Settled == sync.state # "awaiting"

NextLive ==
  \/ \E k \in Keys, v \in CacheTexts : Settled /\ SetCache(k, v)
  \/ \E k \in Keys : Settled /\ RemoveCache(k)
  \/ \E k \in Keys : GetCache(k)
  \/ \E k \in Keys : AsyncGet(k)
  \/ SyncCacheCall("ok")
  \/ SyncCacheResume("ok")

\* weak fairness of the resumption: every adapter.setItem call completes
SpecLive == InitCache /\ [][NextLive]_vars /\ WF_vars(SyncCacheResume("ok"))

(***************************************************************************)
(* A facade with any serializer, the custom one included, on an adapter    *)
(* that holds texts the facade wrote and texts written without it.  The    *)
(* calls of serializer.parse are followed.                                 *)
(***************************************************************************)
\* get(key), on either facade: fromStore hands the item to serializer.parse,
\* or returns before it does
ParsingGet(k) ==
  LET item == getItem(storage, prefix \o k) IN
  /\ last' = Returned("get", k, fromStore(serializer, item), "none")
  /\ via' = "facade"
  /\ call' = IF callsParse(item)
             THEN AdapterCall("parse", item.s, k, Undefined)
             ELSE AdapterCall("getItem", prefix \o k, k, Undefined)
  /\ UNCHANGED <<config, storage, pops, written, asideOfCall>>

\* the values handed to set() where the serializer's calls are followed
ParsingValues == {Undefined, Null, Num(1), Str("hi"), Str("null")}

\* the texts written into the adapter without the facade
StoredTexts == {"null", "wrong"}

InitParsing ==
  /\ kind \in {"sync", "async"}
  /\ prefix \in Prefixes
  /\ serializer \in Serializers \cup CustomSerializers
  /\ storage = EmptyMap
  /\ pops = EmptyBag
  /\ last = NoCall
  /\ written = [k \in Keys |-> None]
  /\ Unused

NextParsing ==
  \/ \E k \in Keys : ParsingGet(k)
  \/ \E k \in Keys, value \in ParsingValues : FacadeSet(k, value, Undefined, "ok")
  \/ \E k \in Keys : FacadeRemove(k)
  \/ \E k \in DirectKeys, text \in StoredTexts : DirectSetItem(prefix \o k, text)

SpecParsing == InitParsing /\ [][NextParsing]_vars

(***************************************************************************)
(* A facade on an adapter whose methods may fail: getItem, setItem,        *)
(* removeItem and clear each complete, throw, or (async adapter) give a    *)
(* promise that rejects.  A method that fails leaves the adapter's entries *)
(* as they were.  In an async method of the facade a throw and a rejection *)
(* both reject the promise the caller holds; the caller gets Exception.    *)
(***************************************************************************)
\* the outcomes an adapter of this kind of facade can produce
OutcomesOf(k) == IF k = "sync" THEN {"ok", "throws"} ELSE SetItemOutcomes

\* get with a try/catch that answers null when the adapter fails
FallibleGet_nullOnError(k, outcome) ==
  /\ outcome \in OutcomesOf(kind)
  /\ last' = Returned("get", k, IF outcome = "ok" THEN get(k) ELSE Null, "none")
  /\ via' = "facade"
  /\ call' = AdapterCall("getItem", prefix \o k, k, Undefined)
  /\ UNCHANGED <<config, storage, pops, written, asideOfCall>>

\* get(key): no try/catch around adapter.getItem
FallibleGet(k, outcome) ==
  /\ outcome \in OutcomesOf(kind)
  /\ last' = Returned("get", k, IF outcome = "ok" THEN get(k) ELSE Exception, "none")
  /\ via' = "facade"
  /\ call' = AdapterCall("getItem", prefix \o k, k, Undefined)
  /\ UNCHANGED <<config, storage, pops, written, asideOfCall>>

\* remove(key): no try/catch around adapter.removeItem
FallibleRemove(k, outcome) ==
  /\ outcome \in OutcomesOf(kind)
  /\ IF outcome = "ok"
     THEN /\ remove(k)
          /\ last' = Returned("remove", k, Undefined, "none")
     ELSE /\ UNCHANGED <<storage, written>>
          /\ last' = Returned("remove", k, Exception, "none")
  /\ via' = "facade"
  /\ call' = AdapterCall("removeItem", prefix \o k, k, Undefined)
  /\ UNCHANGED <<config, pops, asideOfCall>>

\* clear(): no try/catch around adapter.clear
FallibleClear(outcome) ==
  /\ outcome \in OutcomesOf(kind)
  /\ IF outcome = "ok"
     THEN /\ clear
          /\ last' = Returned("clear", "", Undefined, "none")
     ELSE /\ UNCHANGED <<storage, written>>
          /\ last' = Returned("clear", "", Exception, "none")
  /\ via' = "facade"
  /\ call' = AdapterCall("clear", "", "", Undefined)
  /\ UNCHANGED <<config, pops, asideOfCall>>

\* pop(key): the sync pop, whose removeItem runs only when getItem returned;
\* the async pop as far as its first await, where it ends when get rejected
FalliblePop(k, read, removal) ==
  /\ read \in OutcomesOf(kind)
  /\ removal \in OutcomesOf(kind)
  /\ via' = "facade"
  /\ IF read # "ok"
     THEN /\ removal = "ok"
          /\ last' = Returned("pop", k, Exception, "none")
          /\ call' = AdapterCall("getItem", prefix \o k, k, Undefined)
          /\ UNCHANGED <<config, storage, written, pops, asideOfCall>>
     ELSE IF kind = "sync"
     THEN /\ IF removal = "ok"
             THEN /\ remove(k)
                  /\ last' = Returned("pop", k, get(k), "none")
             ELSE /\ UNCHANGED <<storage, written>>
                  /\ last' = Returned("pop", k, Exception, "none")
          /\ call' = AdapterCall("removeItem", prefix \o k, k, Undefined)
          /\ UNCHANGED <<config, pops, asideOfCall>>
     ELSE /\ removal = "ok"
          /\ BagCardinality(pops) < MaxTasks
          /\ pops' = pops (+) SetToBag({[key |-> k, item |-> get(k)]})
          /\ call' = AdapterCall("getItem", prefix \o k, k, Undefined)
          /\ UNCHANGED <<config, storage, last, written, asideOfCall>>

\* the async pop from its first await on: await this.remove(key); return item
FalliblePopResume(p, removal) ==
  /\ kind = "async"
  /\ BagIn(p, pops)
  /\ pops' = pops (-) SetToBag({p})
  /\ IF removal = "ok"
     THEN /\ remove(p.key)
          /\ last' = Returned("pop", p.key, p.item, "none")
     ELSE /\ UNCHANGED <<storage, written>>
          /\ last' = Returned("pop", p.key, Exception, "none")
  /\ call' = AdapterCall("removeItem", prefix \o p.key, p.key, Undefined)
  /\ UNCHANGED <<config, via, asideOfCall>>

NextFallible ==
  \/ \E k \in Keys, outcome \in SetItemOutcomes : FallibleGet(k, outcome)
  \/ \E k \in Keys, value \in TextValues, outcome \in OutcomesOf(kind) :
       FacadeSet(k, value, Undefined, outcome)
  \/ \E k \in Keys, outcome \in SetItemOutcomes : FallibleRemove(k, outcome)
  \/ \E k \in Keys, read \in SetItemOutcomes, removal \in SetItemOutcomes :
       FalliblePop(k, read, removal)
  \/ \E p \in BagToSet(pops), removal \in SetItemOutcomes : FalliblePopResume(p, removal)
  \/ \E outcome \in SetItemOutcomes : FallibleClear(outcome)

SpecFallible == InitDefine /\ [][NextFallible]_vars

(***************************************************************************)
(* Racing calls on one AsyncBrowserStorage: the caller starts pop() and    *)
(* set() calls without awaiting the ones it started before.                *)
(***************************************************************************)
\* const item = await this.get(key), with other pop() calls suspended
RacingPopCall(k) ==
  /\ kind = "async"
  /\ BagCardinality(pops) < MaxRacingPops
  /\ pops' = pops (+) SetToBag({[key |-> k, item |-> get(k)]})
  /\ UNCHANGED <<config, aside, storage, last, written>>

NextRace ==
  \/ \E k \in Keys : RacingPopCall(k)
  \/ \E p \in BagToSet(pops) : AsyncPopResume(p)
  \/ \E k \in Keys, value \in PlainValues, outcome \in SyncOutcomes :
       AsyncSet(k, value, outcome)
  \/ \E k \in Keys : AsyncGet(k)

SpecRace == InitCache /\ [][NextRace]_vars

(***************************************************************************)
(* The overlay next to the operations of the async facade that go to the   *)
(* adapter: get, set, remove, pop and clear run between the cache calls    *)
(* and while a syncCache() is suspended; setCache and removeCache run      *)
(* between the syncCache() calls.                                          *)
(***************************************************************************)
\* the key get, set, remove and pop are called on where the overlay is in
\* use: a key the overlay may hold as well
OverlayKeys == {"a"}

NextOverlay ==
  \/ \E k \in Keys, v \in CacheTexts : Settled /\ SetCache(k, v)
  \/ \E k \in Keys : Settled /\ RemoveCache(k)
  \/ \E k \in Keys : GetCache(k)
  \/ \E outcome \in SyncOutcomes : SyncCacheCall(outcome)
  \/ \E outcome \in SyncOutcomes : SyncCacheResume(outcome)
  \/ \E k \in OverlayKeys : AsyncGet(k)
  \/ \E k \in OverlayKeys, value \in TextValues, outcome \in SyncOutcomes :
       AsyncSet(k, value, outcome)
  \/ \E k \in OverlayKeys : AsyncRemove(k)
  \/ \E k \in OverlayKeys : AsyncPopCall(k)
  \/ \E p \in BagToSet(pops) : AsyncPopResume(p)
  \/ AsyncClear

SpecOverlay == InitCache /\ [][NextOverlay]_vars

(***************************************************************************)
(* Two facades on one adapter: "facade", with prefix, and "other", with    *)
(* prefix2, of the same kind and with the same serializer.  The adapter    *)
(* may lack the optional clear method.                                     *)
(***************************************************************************)
Facades == {"facade", "other"}

\* both facades constructed with the same prefix
PrefixOf_same(f) == prefix

PrefixOf(f) == IF f = "facade" THEN prefix ELSE prefix2

\* get(k) of facade f
getOn(f, k) == fromStore(serializer, getItem(storage, PrefixOf(f) \o k))

asideOfShared == <<hasClear, prefix2, call, cache, sync, window, built, other>>

SharedGet(f, k) ==
  /\ last' = Returned("get", k, getOn(f, k), "none")
  /\ via' = f
  /\ UNCHANGED <<config, storage, pops, written, asideOfShared>>

\* set(k, value) of facade f, with an adapter.setItem that completes
SharedSet(f, k, value) ==
  /\ via' = f
  /\ IF f = "facade"
     THEN set(k, value, "ok")
     ELSE /\ storage' = setItem(storage, prefix2 \o k, toStore(serializer, value).v.s)
          /\ written' = Forget(written, prefix2 \o k)
          /\ last' = Returned("set", k, Bool(TRUE), "ok")
  /\ UNCHANGED <<config, pops, asideOfShared>>

\* clear() of either facade
SharedClear(f) ==
  /\ clear
  /\ last' = Returned("clear", "", Undefined, "none")
  /\ via' = f
  /\ UNCHANGED <<config, pops, asideOfShared>>

\* adapter.setItem called without any facade
SharedDirectSetItem(pk, text) ==
  /\ storage' = setItem(storage, pk, text)
  /\ written' = Forget(written, pk)
  /\ last' = Returned("setItem", pk, Undefined, "ok")
  /\ via' = "adapter"
  /\ UNCHANGED <<config, pops, asideOfShared>>

InitShared ==
  /\ kind \in {"sync", "async"}
  /\ prefix \in Prefixes
  /\ serializer = "JSON"
  /\ storage = EmptyMap
  /\ pops = EmptyBag
  /\ last = NoCall
  /\ written = [k \in Keys |-> None]
  /\ hasClear \in BOOLEAN
  /\ prefix2 \in Prefixes
  /\ via = "facade"
  /\ call = NoAdapterCall
  /\ cache = <<>>
  /\ sync = Idle
  /\ window = NoWindow
  /\ built = "given"
  /\ other = NewInstance

NextShared ==
  \/ \E f \in Facades, k \in Keys : SharedGet(f, k)
  \/ \E f \in Facades, k \in Keys, value \in DefineValues : SharedSet(f, k, value)
  \/ \E f \in Facades : SharedClear(f)
  \/ \E pk \in DirectKeys, text \in DirectTexts : SharedDirectSetItem(pk, text)

SpecShared == InitShared /\ [][NextShared]_vars

(***************************************************************************)
(* What each call leaves alone: the operations of one facade on an         *)
(* adapter that holds several entries, next to the overlay (async facade)  *)
(* and to the calls that make handles.                                     *)
(***************************************************************************)
\* facade.define(key, defaultConfig): the handle is made, nothing is called
DefineCall(k, c) ==
  /\ last' = Returned("define", k, define(k, c), "none")
  /\ via' = "facade"
  /\ UNCHANGED <<config, storage, pops, written, call, asideOfCall>>

\* facade.defineGroup(group)
DefineGroupCall(group) ==
  /\ last' = Returned("defineGroup", "", defineGroup(group), "none")
  /\ via' = "facade"
  /\ UNCHANGED <<config, storage, pops, written, call, asideOfCall>>

InitFrame ==
  /\ kind \in {"sync", "async"}
  /\ prefix \in Prefixes
  /\ serializer \in {"JSON", "stub"}
  /\ storage = EmptyMap
  /\ pops = EmptyBag
  /\ last = NoCall
  /\ written = [k \in Keys |-> None]
  /\ Unused

NextFrame ==
  \/ \E k \in Keys : FacadeGet(k)
  \/ \E k \in Keys, value \in PlainValues, outcome \in DefineOutcomes :
       FacadeSet(k, value, Undefined, outcome)
  \/ \E k \in Keys : FacadeRemove(k)
  \/ \E k \in Keys : FacadePop(k)
  \/ \E p \in BagToSet(pops) : PopResume(p)
  \/ \E k \in Keys, v \in CacheTexts : kind = "async" /\ SetCache(k, v)
  \/ \E k \in Keys : kind = "async" /\ GetCache(k)
  \/ \E k \in Keys, c \in {Undefined, DefaultConfig} : DefineCall(k, c)
  \/ DefineGroupCall(Group)
  \/ \E pk \in DirectKeys, text \in DirectTexts : DirectSetItem(pk, text)

SpecFrame == InitFrame /\ [][NextFrame]_vars

(***************************************************************************)
(* Two BrowserStorage facades with different prefixes on one adapter,      *)
(* called with keys that may themselves begin with a prefix: the adapter's *)
(* key is the concatenation, whatever its parts are.                       *)
(***************************************************************************)
\* the prefixes of the two facades: none, and two that do not overlap
IsolationPrefixes == {"", "ns:", "x:"}

\* the keys the callers supply: a plain one, and one that begins with a prefix
IsolationKeys == {"a", "ns:a"}

IsolatedRemove(f, k) ==
  LET pk == PrefixOf(f) \o k IN
  /\ storage' = removeItem(storage, pk)
  /\ written' = Forget(written, pk)
  /\ last' = Returned("remove", k, Undefined, "none")
  /\ via' = f
  /\ call' = AdapterCall("removeItem", pk, k, Undefined)
  /\ UNCHANGED <<config, pops, asideOfCall>>

IsolatedPop(f, k) ==
  LET pk == PrefixOf(f) \o k IN
  /\ storage' = removeItem(storage, pk)
  /\ written' = Forget(written, pk)
  /\ last' = Returned("pop", k, getOn(f, k), "none")
  /\ via' = f
  /\ call' = AdapterCall("removeItem", pk, k, Undefined)
  /\ UNCHANGED <<config, pops, asideOfCall>>

InitIsolation ==
  /\ kind = "sync"
  /\ prefix \in IsolationPrefixes
  /\ serializer = "JSON"
  /\ storage = EmptyMap
  /\ pops = EmptyBag
  /\ last = NoCall
  /\ written = [k \in Keys |-> None]
  /\ hasClear = TRUE
  /\ prefix2 \in IsolationPrefixes \ {prefix}
  /\ via = "facade"
  /\ call = NoAdapterCall
  /\ cache = <<>>
  /\ sync = Idle
  /\ window = NoWindow
  /\ built = "given"
  /\ other = NewInstance

NextIsolation ==
  \/ \E f \in Facades, k \in IsolationKeys : SharedGet(f, k)
  \/ \E f \in Facades, k \in IsolationKeys, value \in PlainValues :
       SharedSet(f, k, value)
  \/ \E f \in Facades, k \in IsolationKeys : IsolatedRemove(f, k)
  \/ \E f \in Facades, k \in IsolationKeys : IsolatedPop(f, k)
  \/ \E f \in Facades : SharedClear(f)

SpecIsolation == InitIsolation /\ [][NextIsolation]_vars

(***************************************************************************)
(* Two facade instances, "facade" and "other", with the same prefix.  Two  *)
(* BrowserStorage are each constructed without an adapter, so each         *)
(* constructor makes a MemoryStorageAdapter: storage is the one of         *)
(* "facade", other.storage the one of "other".  Two AsyncBrowserStorage    *)
(* are constructed on one async adapter (storage); cachedAdapter is an     *)
(* instance field, initialised for each instance: cache and sync belong to *)
(* "facade", other.cache and other.sync to "other".                        *)
(***************************************************************************)
\* one MemoryStorageAdapter and one overlay made once, for every instance
OwnerOf_static(f) == "facade"

\* whose in-memory state facade f uses: the constructor of each instance
\* runs new MemoryStorageAdapter()
OwnerOf(f) == f

\* the Map of the adapter facade f is built on
StorageOf(f) ==
  IF kind = "sync" /\ OwnerOf(f) = "other" THEN other.storage ELSE storage

\* the overlay of facade f and its syncCache() call
OverlayOf(f) ==
  IF OwnerOf(f) = "other"
  THEN [cache |-> other.cache, sync |-> other.sync]
  ELSE [cache |-> cache, sync |-> sync]

\* the overlay of facade f becomes c, its syncCache() call s
SetOverlay(f, c, s) ==
  IF OwnerOf(f) = "other"
  THEN other' = [other EXCEPT !.cache = c, !.sync = s] /\ UNCHANGED <<cache, sync>>
  ELSE cache' = c /\ sync' = s /\ UNCHANGED other

\* get(k) of a BrowserStorage
InstanceGet(f, k) ==
  /\ kind = "sync"
  /\ last' = Returned("get", k, fromStore(serializer, getItem(StorageOf(f), prefix \o k)), "none")
  /\ via' = f
  /\ call' = AdapterCall("getItem", prefix \o k, k, Undefined)
  /\ UNCHANGED <<config, storage, pops, written, cache, sync, other, hasClear, prefix2, window, built>>

\* set(k, value) of a BrowserStorage, on its MemoryStorageAdapter
InstanceSet(f, k, value) ==
  LET text == toStore(serializer, value).v.s IN
  /\ kind = "sync"
  /\ IF OwnerOf(f) = "other"
     THEN /\ other' = [other EXCEPT !.storage = setItem(@, prefix \o k, text)]
          /\ UNCHANGED <<storage, written>>
     ELSE /\ storage' = setItem(storage, prefix \o k, text)
          /\ written' = [written EXCEPT ![k] = value]
          /\ UNCHANGED other
  /\ last' = Returned("set", k, Bool(TRUE), "ok")
  /\ via' = f
  /\ call' = AdapterCall("setItem", prefix \o k, k, Undefined)
  /\ UNCHANGED <<config, pops, cache, sync, hasClear, prefix2, window, built>>

\* getCache(k) of an AsyncBrowserStorage
InstanceGetCache(f, k) ==
  /\ kind = "async"
  /\ last' = Returned("getCache", k, OrderedGet(OverlayOf(f).cache, k), "none")
  /\ via' = f
  /\ UNCHANGED <<config, storage, pops, written, call, cache, sync, other, hasClear, prefix2, window, built>>

\* setCache(k, v) of an AsyncBrowserStorage, between its syncCache() calls
InstanceSetCache(f, k, v) ==
  LET o == OverlayOf(f) IN
  /\ kind = "async"
  /\ o.sync.state # "awaiting"
  /\ SetOverlay(f, IF Truthy(v) THEN OrderedSet(o.cache, k, v.s) ELSE o.cache, o.sync)
  /\ last' = Returned("setCache", k, Undefined, "none")
  /\ via' = f
  /\ UNCHANGED <<config, storage, pops, written, call, hasClear, prefix2, window, built>>

\* one step of syncCache() of an AsyncBrowserStorage: the next entry of its
\* overlay is written to the adapter and awaited, or there is none left
InstanceSyncStep(f, s) ==
  LET o == OverlayOf(f) IN
  IF s.pos >= Len(o.cache)
  THEN /\ SetOverlay(f, o.cache, [s EXCEPT !.state = "resolved"])
       /\ UNCHANGED <<storage, written, call>>
  ELSE LET e == o.cache[s.pos + 1] IN
       /\ call' = AdapterCall("setItem", e.key, e.key, Undefined)
       /\ storage' = setItem(storage, e.key, e.value)
       /\ written' = Forget(written, e.key)
       /\ SetOverlay(f, o.cache,
                     [s EXCEPT !.state = "awaiting", !.pos = @ + 1,
                               !.inflight = @ + 1, !.issued = Append(@, e)])

\* syncCache() of an AsyncBrowserStorage, as far as its first await
InstanceSyncCacheCall(f) ==
  /\ kind = "async"
  /\ OverlayOf(f).sync.state # "awaiting"
  /\ InstanceSyncStep(f, [Idle EXCEPT !.at = OverlayOf(f).cache])
  /\ via' = f
  /\ UNCHANGED <<config, pops, last, hasClear, prefix2, window, built>>

\* syncCache() resumed
InstanceSyncCacheResume(f) ==
  /\ kind = "async"
  /\ OverlayOf(f).sync.state = "awaiting"
  /\ InstanceSyncStep(f, [OverlayOf(f).sync EXCEPT !.inflight = @ - 1])
  /\ via' = f
  /\ UNCHANGED <<config, pops, last, hasClear, prefix2, window, built>>

InitInstances ==
  /\ kind \in {"sync", "async"}
  /\ prefix \in Prefixes
  /\ serializer = "JSON"
  /\ storage = EmptyMap
  /\ pops = EmptyBag
  /\ last = NoCall
  /\ written = [k \in Keys |-> None]
  /\ hasClear = TRUE
  /\ prefix2 = prefix
  /\ via = "facade"
  /\ call = NoAdapterCall
  /\ cache = <<>>
  /\ sync = Idle
  /\ window = NoWindow
  /\ built = IF kind = "sync" THEN "memory" ELSE "given"
  /\ other = NewInstance

NextInstances ==
  \/ \E f \in Facades, k \in Keys : InstanceGet(f, k)
  \/ \E f \in Facades, k \in Keys, value \in PlainValues : InstanceSet(f, k, value)
  \/ \E f \in Facades, k \in Keys : InstanceGetCache(f, k)
  \/ \E f \in Facades, k \in Keys, v \in CacheTexts : InstanceSetCache(f, k, v)
  \/ \E f \in Facades : InstanceSyncCacheCall(f)
  \/ \E f \in Facades : InstanceSyncCacheResume(f)

SpecInstances == InitInstances /\ [][NextInstances]_vars

(***************************************************************************)
(* LocalStorage and SessionStorage: a BrowserStorage whose constructor     *)
(* takes the adapter from window.  Reading window.localStorage (or         *)
(* window.sessionStorage) throws when there is no window or the access is  *)
(* denied, gives undefined in a runtime whose window has no such property, *)
(* and gives the browser's storage, with the entries it already holds,     *)
(* otherwise.                                                              *)
(***************************************************************************)
Classes == {"LocalStorage", "SessionStorage"}

\* the entries the browser's storage may hold when the constructor runs
WindowItems == {EmptyMap, MapSet(EmptyMap, "a", "hi")}

Windows ==
  {NoWindow, [access |-> "undefined", items |-> EmptyMap]}
    \cup {[access |-> "ok", items |-> m] : m \in WindowItems}

\* let adapter = new MemoryStorageAdapter(); adapter = window.localStorage,
\* outside any try block
acquire_noCatch(w) ==
  CASE w.access = "throws" -> Throw
    [] w.access = "undefined" -> Return("undefined")
    [] OTHER -> Return("window")

\* let adapter = new MemoryStorageAdapter();
\* try { adapter = window.localStorage } catch { console.log(...) }
acquire(w) ==
  CASE w.access = "throws" -> Return("memory")
    [] w.access = "undefined" -> Return("undefined")
    [] OTHER -> Return("window")

\* this.adapter = config.adapter ?? new MemoryStorageAdapter()
adapterOrMemory(a) == IF a = "undefined" THEN "memory" ELSE a

asideOfWindow == <<hasClear, prefix2, via, call, cache, sync, window, other>>

\* new LocalStorage(config) / new SessionStorage(config)
Construct(class) ==
  /\ built = "none"
  /\ LET acquired == acquire(window) IN
     IF acquired.threw
     THEN /\ last' = Returned("new", class, Exception, "none")
          /\ UNCHANGED <<built, storage>>
     ELSE /\ built' = adapterOrMemory(acquired.v)
          /\ storage' = IF built' = "window" THEN window.items ELSE EmptyMap
          /\ last' = Returned("new", class, Undefined, "none")
  /\ UNCHANGED <<config, pops, written, asideOfWindow>>

InitWindow ==
  /\ kind = "sync"
  /\ prefix \in Prefixes
  /\ serializer = "JSON"
  /\ storage = EmptyMap
  /\ pops = EmptyBag
  /\ last = NoCall
  /\ written = [k \in Keys |-> None]
  /\ hasClear = TRUE
  /\ prefix2 = prefix
  /\ via = "facade"
  /\ call = NoAdapterCall
  /\ cache = <<>>
  /\ sync = Idle
  /\ window \in Windows
  /\ built = "none"
  /\ other = NewInstance

NextWindow ==
  \/ \E class \in Classes : Construct(class)
  \/ \E k \in Keys : built # "none" /\ Get(k)
  \/ \E k \in Keys, value \in DefineValues, outcome \in SetItemOutcomes :
       built # "none" /\ Set(k, value, outcome)
  \/ \E k \in Keys : built # "none" /\ Remove(k)

SpecWindow == InitWindow /\ [][NextWindow]_vars

(***************************************************************************)
(* Properties.                                                             *)
(*                                                                         *)
(* Every step but AsyncPopCall sets `last`, and every step that changes    *)
(* storage or written sets it too: in a state whose last call is a         *)
(* get(k), storage and written are what that get has read.                 *)
(***************************************************************************)
\* one call of get, set, remove on either facade (the conjuncts on last'
\* follow from the actions; they come first so that the actions are only
\* evaluated on the steps that can satisfy them)
GetStep(k) ==
  /\ last'.op = "get" /\ last'.key = k
  /\ Get(k) \/ AsyncGet(k)

SetStep(k, value, outcome) ==
  /\ last'.op = "set" /\ last'.key = k /\ last'.adapter \in {outcome, "notcalled"}
  /\ last'.adapter = "ok" => written'[k] = value
  /\ Set(k, value, outcome) \/ AsyncSet(k, value, outcome)

RemoveStep(k) ==
  /\ last'.op = "remove" /\ last'.key = k
  /\ Remove(k) \/ AsyncRemove(k)

\* the key of the call that returns in this step: the only key for which
\* GetStep, SetStep, RemoveStep or Pop can be the step
CallKeys == Keys \cap {last'.key}

\* the values that are not strings
Structured == {v \in Values : v.t # "string"}

\* for each serializer, the non-string values it supports:
\* parse(stringify(v)) = v
SupportedBy ==
  [ser \in Serializers |->
     {v \in Values :
        /\ v.t \in {"null", "boolean", "number", "object"}
        /\ ~stringify(ser, v).threw
        /\ parse(ser, stringify(ser, v).v.s) = Return(v)}]

Supported(v) == v \in SupportedBy[serializer]

\* for each serializer, the values for which its stringify throws on what
\* toStore hands it
ThrowsOn ==
  [ser \in Serializers |->
     {v \in Values :
        /\ v.t # "string"
        /\ stringify(ser, IF v.t = "undefined" THEN Null ELSE v).threw}]

StringifyThrows(v) == v \in ThrowsOn[serializer]

\* C1: string round trip: a get(k) that reads the entry a set(k, v) with a
\* string v wrote returns exactly the string v, whatever its content.
C1_StringRoundTrip ==
  (last.op = "get" /\ written[last.key].t = "string") => last.ret = written[last.key]

\* C2: structured round trip: for every non-string value v the serializer
\* supports, a set(k, v) whose adapter.setItem completes returns true and get(k)
\* then returns v; a get(k) that reads the entry such a set wrote returns v;
\* on both facades, for every prefix.
C2_StructuredRoundTrip ==
  /\ [](last.op = "get" /\ Supported(written[last.key]) => last.ret = written[last.key])
  /\ [][last'.op = "set"
          => \A k \in CallKeys, v \in SupportedBy[serializer] :
               SetStep(k, v, "ok")
                 => last'.ret = Bool(TRUE) /\ get(k)' = v]_vars

C2_Witness ==
  /\ kind = "async"
  /\ prefix = "ns:"
  /\ last.op = "get"
  /\ written[last.key] = Obj("m", Str("hi"))
  /\ last.ret = Obj("m", Str("hi"))

\* C3: prefixing: a set(k, v) that reaches the adapter writes the entry at
\* prefix + k and, when the prefix is not empty, leaves the entry at the bare
\* key k as it was; get(k) returns the value stored at prefix + k.
C3_Prefixing ==
  [][/\ last'.op = "set" /\ last'.adapter = "ok"
          => \A k \in CallKeys, v \in Values :
               SetStep(k, v, "ok") /\ ~toStore(serializer, v).threw
                 => /\ getItem(storage', prefix \o k) = toStore(serializer, v).v
                    /\ (prefix # "" => getItem(storage', k) = getItem(storage, k))
     /\ last'.op = "get"
          => \A k \in CallKeys :
               GetStep(k)
                 => last'.ret = fromStore(serializer, getItem(storage, prefix \o k))]_vars

C3_Witness ==
  /\ prefix = "ns:"
  /\ getItem(storage, "a") = Str("wrong")
  /\ getItem(storage, "ns:a") = Str("hi")
  /\ last = Returned("get", "a", Str("hi"), "none")

\* C4: set(k) with no value and set(k, null), when the serializer encodes null
\* and adapter.setItem completes, return true and store the serializer's
\* encoding of null; every get(k) that reads that entry returns null.
C4_SetNothingOrNull ==
  /\ [](last.op = "get" /\ written[last.key] \in {Undefined, Null} => last.ret = Null)
  /\ [][last'.op = "set"
          => \A k \in CallKeys, v \in {Undefined, Null} :
               SetStep(k, v, "ok") /\ ~stringify(serializer, Null).threw
                 => /\ last'.ret = Bool(TRUE)
                    /\ getItem(storage', prefix \o k) = stringify(serializer, Null).v]_vars

C4_Witness ==
  /\ last.op = "get"
  /\ written[last.key] = Undefined
  /\ last.ret = Null
  /\ getItem(storage, prefix \o last.key) = Str("null")

\* C5: get(k) returns null whenever the adapter has no entry at prefix + k;
\* it has none before the first call and after every remove(k), whatever came
\* before.
C5_AbsentIsNull ==
  /\ [](last = NoCall => storage = EmptyMap)
  /\ [][last'.op \in {"get", "remove"}
          => \A k \in CallKeys :
               /\ GetStep(k) /\ ~MapHas(storage, prefix \o k) => last'.ret = Null
               /\ RemoveStep(k) => ~MapHas(storage', prefix \o k)]_vars

C5_Witness ==
  /\ last.op = "get"
  /\ last.key = "a"
  /\ last.ret = Null
  /\ ~MapHas(storage, prefix \o "a")
  /\ MapHas(storage, prefix \o "b")

\* C6: pop(k) returns what get(k) returns in the state of the call and then
\* removes prefix + k from the adapter, also when that value is null; a get(k)
\* that comes right after it returns null.  The async pop reads inside the
\* call and removes when it is resumed.
C6_Pop ==
  [][/\ last'.op = "pop"
          => /\ \A k \in CallKeys :
                  Pop(k)
                    => /\ last'.ret = fromStore(serializer, getItem(storage, prefix \o k))
                       /\ ~MapHas(storage', prefix \o k)
             /\ \A p \in BagToSet(pops) :
                  AsyncPopResume(p)
                    => /\ last'.ret = p.item
                       /\ ~MapHas(storage', prefix \o p.key)
     /\ pops' # pops
          => \A k \in Keys :
               AsyncPopCall(k)
                 => /\ BagIn([key |-> k,
                              item |-> fromStore(serializer, getItem(storage, prefix \o k))],
                             pops')
                    /\ storage' = storage
     /\ last'.op = "get" /\ last.op = "pop"
          => \A k \in CallKeys :
               GetStep(k) /\ last.key = k => last'.ret = Null]_vars

C6_Witness ==
  /\ kind = "async"
  /\ last.op = "pop"
  /\ last.ret = Str("hi")
  /\ ~MapHas(storage, prefix \o last.key)

\* C7: when fromStore calls the serializer's parse on the text stored at
\* prefix + k and parse throws, get(k) returns that text unmodified.
C7_ParseFailureReturnsText ==
  [][last'.op = "get"
       => \A k \in CallKeys :
            LET item == getItem(storage, prefix \o k) IN
            GetStep(k) /\ callsParse(item) /\ parse(serializer, item.s).threw
              => last'.ret = item]_vars

C7_Witness ==
  /\ serializer = "JSON"
  /\ last.op = "get"
  /\ last.ret = Str("wrong")
  /\ getItem(storage, prefix \o last.key) = Str("wrong")

\* C8 as stated: on a facade whose serializer's parse throws, after set(k, v)
\* with a structured v on a key that had no entry, get(k) returns null.
C8_UnreadableIsNull ==
  [][serializer # "JSON" /\ last'.op = "set"
       => \A k \in CallKeys, v \in Structured, o \in SetItemOutcomes :
            ~MapHas(storage, prefix \o k) /\ SetStep(k, v, o)
              => get(k)' = Null]_vars

\* C8 as amended: on a facade whose serializer's parse throws, after set(k, v)
\* with a structured v on a key that had no entry, get(k) returns null only
\* when set returned false (nothing was stored) or when the stored text is
\* "null"; when set returned true it returns the stored text unmodified.
C8_UnreadableIsText ==
  [][serializer # "JSON" /\ last'.op = "set"
       => \A k \in CallKeys, v \in Structured, o \in SetItemOutcomes :
            ~MapHas(storage, prefix \o k) /\ SetStep(k, v, o)
              => IF last'.ret = Bool(TRUE)
                 THEN get(k)' = (IF toStore(serializer, v).v = Str("null")
                                 THEN Null ELSE toStore(serializer, v).v)
                 ELSE get(k)' = Null]_vars

C8_Witness ==
  /\ serializer = "parseThrows"
  /\ last.op = "get"
  /\ written[last.key] = Obj("m", Str("hi"))
  /\ last.ret = Str("{\"m\":\"hi\"}")

\* C9: set returns true exactly when adapter.setItem completed normally; when
\* it threw or rejected, set returns false, no exception reaches the caller
\* and the adapter's entries, which a following get(k) reads, are as they were.
C9_SetReportsAdapterFailure ==
  /\ [](last.op = "set"
          => /\ last.ret \in {Bool(TRUE), Bool(FALSE)}
             /\ (last.ret = Bool(TRUE) <=> last.adapter = "ok"))
  /\ [][last'.op = "set" /\ last'.adapter # "ok"
          => \A k \in CallKeys, o \in (SetItemOutcomes \ {"ok"}) \cap {last'.adapter} :
               (\E v \in Values : ~toStore(serializer, v).threw /\ SetStep(k, v, o))
                 => /\ last'.ret = Bool(FALSE)
                    /\ storage' = storage]_vars

C9_Witness ==
  /\ kind = "async"
  /\ last.op = "set"
  /\ last.adapter = "rejects"
  /\ last.ret = Bool(FALSE)
  /\ storage # EmptyMap

\* C10: when the serializer's stringify throws for v, set(k, v) returns false,
\* as it does when the adapter fails, no exception reaches the caller,
\* adapter.setItem is not called and the adapter's entries are as they were.
C10_SetSwallowsStringifyFailure ==
  [][last'.op = "set"
       => \A k \in CallKeys, v \in ThrowsOn[serializer], o \in SetItemOutcomes :
            SetStep(k, v, o)
              => /\ last'.ret = Bool(FALSE)
                 /\ last'.adapter = "notcalled"
                 /\ storage' = storage]_vars

C10_Witness ==
  /\ serializer = "stub"
  /\ last.op = "set"
  /\ last.adapter = "notcalled"
  /\ last.ret = Bool(FALSE)
  /\ storage # EmptyMap

\* the key each handle was defined on, as the caller of define or defineGroup
\* gave it
DefinedOn == [n \in HandleNames |-> IF n = "defined" THEN "b" ELSE Group[n]]

\* C11: a handle is the facade on its key: h.get(), h.set(v), h.remove() and
\* h.pop() of the handle defined on key k (by define, or by defineGroup with
\* its name mapped to k) return what facade.get(k), set(k, v), remove(k) and
\* pop(k) return and do to the adapter what they do; after a set through one
\* name, a get through any other name mapped to the same key reads the entry
\* that facade.get(k) reads.
C11_HandleIsFacadeOnKey ==
  [][\A n \in HandleNames :
       via' = n
       => LET k == DefinedOn[n] IN
          /\ last'.op = "get" /\ HandleGet(n)
               => /\ last' = Returned("get", k, get(k), "none")
                  /\ UNCHANGED <<storage, written, pops>>
          /\ last'.op = "set"
               => \A outcome \in DefineOutcomes \cap {last'.adapter},
                     value \in DefineValues, c \in Configs :
                    (outcome = "ok" => written'[k] = value) /\ HandleSet(n, value, c, outcome)
                      => /\ set(k, value, outcome)
                         /\ \A m \in HandleNames \ {n} :
                              DefinedOn[m] = k
                                => getItem(storage', prefix \o Handles[m].get.key)
                                     = getItem(storage', prefix \o k)
          /\ last'.op = "remove" /\ HandleRemove(n)
               => /\ remove(k)
                  /\ last' = Returned("remove", k, Undefined, "none")
          /\ (last'.op = "pop" \/ pops' # pops) /\ HandlePop(n)
               => IF kind = "sync"
                  THEN /\ remove(k)
                       /\ last' = Returned("pop", k, get(k), "none")
                  ELSE /\ pops' = pops (+) SetToBag({[key |-> k, item |-> get(k)]})
                       /\ UNCHANGED <<storage, written, last>>]_vars

C11_Witness ==
  /\ prefix = "ns:"
  /\ via = "alias"
  /\ last = Returned("get", "a", Obj("m", Str("hi")), "none")
  /\ call = AdapterCall("getItem", "ns:a", "a", Undefined)

\* C12: reading the property key of a handle gives the facade's prefix
\* followed by the key the handle was defined on.
C12_HandleKey ==
  last.op = "key" => last.ret = Str(prefix \o DefinedOn[via])

\* C16: the third argument of adapter.setItem is the config as it was given:
\* for facade.set(k, v, c) it is c; for h.set(v, c) it is c unless c is null
\* or undefined, and then the default config given to define, which is
\* undefined for the handles of defineGroup.
C16_ConfigPassedThrough ==
  [][last'.op = "set" /\ call'.method = "setItem"
       => \A outcome \in DefineOutcomes \cap {last'.adapter},
             value \in DefineValues, c \in Configs :
            /\ via' = "facade"
                 => \A k \in CallKeys :
                      FacadeSet(k, value, c, outcome) => call'.config = c
            /\ via' \in HandleNames /\ HandleSet(via', value, c, outcome)
                 => call'.config =
                      (IF c \notin {Null, Undefined} THEN c
                       ELSE IF via' = "defined" THEN DefaultConfig
                       ELSE Undefined)]_vars

C16_Witness ==
  /\ via = "defined"
  /\ last.op = "set"
  /\ call.method = "setItem"
  /\ call.config = Bool(FALSE)

\* the keys of an ordered Map, in its iteration order
OrderedKeys(m) == [i \in 1..Len(m) |-> m[i].key]

\* the entries of an ordered Map
OrderedEntries(m) == {m[i] : i \in 1..Len(m)}

\* C13: the overlay read as a map: setCache(k, v) with a string v, the empty
\* string included, makes getCache(k) return v; setCache(k) without a value
\* leaves the overlay as it was; after removeCache(k), and for a key not in the
\* overlay, getCache(k) returns null.
C13_OverlayIsMap ==
  [][last'.op \in {"setCache", "removeCache", "getCache"}
       => \A k \in CallKeys :
            /\ \A v \in CacheTexts \ {Undefined} :
                 SetCache(k, v) => getCache(k)' = v
            /\ SetCache(k, Undefined) => cache' = cache
            /\ RemoveCache(k) => getCache(k)' = Null
            /\ GetCache(k) /\ OrderedIndex(cache, k) = 0 => last'.ret = Null]_vars

\* C14: with any prefix, a key that only setCache(k, v) wrote reads null
\* through get(k) as long as syncCache was never called, and reads
\* fromStore(v) once a syncCache() that found (k, v) in the overlay has
\* resolved.
C14_GetAfterSync ==
  \A k \in Keys :
    /\ sync.state = "idle" /\ getCache(k) # Null => get(k) = Null
    /\ (sync.state = "resolved" /\ sync.disturbs = 0 /\ OrderedGet(sync.at, k) # Null)
         => get(k) = fromStore(serializer, OrderedGet(sync.at, k))

\* C18: every getItem, setItem and removeItem call a facade operation makes
\* on the adapter is given the facade's prefix followed by the key the
\* caller supplied.
C18_PrefixTerritory ==
  call.method \in {"getItem", "setItem", "removeItem"}
    => call.key = prefix \o call.caller

\* C19: when syncCache() has resolved, the backend holds every entry the
\* overlay held at the moment of the call, and syncCache wrote nothing else.
C19_SyncWritesSnapshot ==
  sync.state = "resolved"
    => /\ \A e \in OrderedEntries(sync.at) : getItem(storage, e.key) = Str(e.value)
       /\ OrderedEntries(sync.issued) \subseteq OrderedEntries(sync.at)

\* C20: syncCache has at most one adapter.setItem call in flight; while no
\* setCache or removeCache ran since it was called, the writes it has issued
\* are the first entries of the overlay, one write each, in the overlay's
\* iteration order, and all of them when it resolves; that order is the order
\* of first insertion: setCache on a key the overlay holds keeps its place,
\* on any other key (a removed one too) it puts the key last.
C20_SyncOneAtATimeInOrder ==
  /\ [](sync.inflight <= 1)
  /\ [](sync.disturbs = 0
          => /\ Len(sync.issued) <= Len(sync.at)
             /\ sync.issued = SubSeq(sync.at, 1, Len(sync.issued))
             /\ sync.state = "resolved" => sync.issued = sync.at)
  /\ [][last'.op \in {"setCache", "removeCache"}
          => \A k \in CallKeys :
               /\ SetCache(k, Str("1"))
                    => OrderedKeys(cache') =
                         (IF OrderedIndex(cache, k) # 0 THEN OrderedKeys(cache)
                          ELSE Append(OrderedKeys(cache), k))
               /\ RemoveCache(k) => OrderedIndex(cache', k) = 0]_vars

C20_Witness ==
  /\ sync.state = "resolved"
  /\ sync.disturbs = 0
  /\ OrderedKeys(sync.at) = <<"b", "a">>
  /\ OrderedKeys(sync.issued) = <<"b", "a">>
  /\ sync.inflight = 0

\* C17: clear() of a facade empties the whole adapter, the entries outside
\* the facade's prefix included (another facade's, or written directly), and
\* get(k) then returns null for every k on every facade of the adapter; on an
\* adapter without clear it throws nothing and leaves every entry in place.
C17_ClearEmptiesAdapter ==
  [][last'.op = "clear"
       => \A f \in Facades :
            SharedClear(f)
              => /\ last'.ret = Undefined
                 /\ IF hasClear
                    THEN /\ storage' = EmptyMap
                         /\ \A g \in Facades, k \in Keys : getOn(g, k)' = Null
                    ELSE storage' = storage]_vars

C17_Witness ==
  /\ hasClear
  /\ prefix = ""
  /\ prefix2 = "ns:"
  /\ via = "other"
  /\ last.op = "clear"
  /\ storage = EmptyMap
  /\ \A k \in Keys : getOn("facade", k) = Null

\* C15: the constructor of LocalStorage and SessionStorage returns normally
\* whatever reading the window backend does: when it throws or gives
\* undefined the facade is built on a new, empty in-memory adapter, otherwise
\* on the window backend with the entries it holds; on the facade so built a
\* get(k) that reads what set(k, v) wrote returns v (v a string no parser
\* accepts, or a value the serializer supports), and get(k) after remove(k)
\* returns null.
C15_ConstructionFallsBack ==
  /\ [][last'.op = "new"
          => \A class \in Classes :
               Construct(class)
                 => /\ last'.ret = Undefined
                    /\ IF window.access = "ok"
                       THEN built' = "window" /\ storage' = window.items
                       ELSE built' = "memory" /\ storage' = EmptyMap]_vars
  /\ [](last.op \in {"get", "set", "remove"} => built \in {"memory", "window"})
  /\ [](last.op = "get" /\ written[last.key] \in DefineValues
          => last.ret = written[last.key])
  /\ [][last'.op = "remove"
          => \A k \in CallKeys : Remove(k) => get(k)' = Null]_vars

C15_Witness ==
  /\ window.access = "undefined"
  /\ built = "memory"
  /\ last = Returned("get", "a", Obj("m", Str("hi")), "none")
  /\ written["a"] = Obj("m", Str("hi"))

SyncStep == \E outcome \in SyncOutcomes : SyncCacheCall(outcome) \/ SyncCacheResume(outcome)

\* C22: there is no implicit sync point: setCache, getCache and removeCache
\* make no adapter call and leave the backend as it is; get, set, remove, pop
\* and clear of the async facade leave the overlay, and what getCache returns,
\* as they were, and get(k) returns what the backend holds whatever the
\* overlay holds; a step that changes the backend and is not a set, remove,
\* pop or clear is a step of syncCache.
C22_NoImplicitSync ==
  [][/\ last'.op \in {"setCache", "removeCache", "getCache"}
          => \A k \in CallKeys :
               (\E v \in CacheTexts : SetCache(k, v)) \/ RemoveCache(k) \/ GetCache(k)
                 => storage' = storage /\ call' = call /\ pops' = pops
     /\ last'.op \in {"get", "set", "remove", "pop"}
          => \A k \in CallKeys :
               /\ (\/ AsyncGet(k)
                   \/ \E value \in TextValues, outcome \in SyncOutcomes :
                        AsyncSet(k, value, outcome)
                   \/ AsyncRemove(k)
                   \/ \E p \in BagToSet(pops) : AsyncPopResume(p))
                    => /\ cache' = cache /\ sync' = sync
                       /\ \A c \in Keys : getCache(c)' = getCache(c)
               /\ AsyncGet(k)
                    => last'.ret = fromStore(serializer, getItem(storage, prefix \o k))
     /\ pops' # pops /\ (\E k \in OverlayKeys : AsyncPopCall(k))
          => cache' = cache /\ sync' = sync
     /\ last'.op = "clear" /\ AsyncClear
          => cache' = cache /\ sync' = sync
     /\ storage' # storage
          => \/ last'.op \in {"set", "remove", "pop", "clear"} /\ sync' = sync
             \/ SyncStep]_vars

C22_Witness ==
  /\ prefix = ""
  /\ sync.state = "idle"
  /\ getCache("a") = Str("1")
  /\ written["a"] = Str("hi")
  /\ last = Returned("get", "a", Str("hi"), "none")

\* C23: the async pop(k) is not atomic and the facade queues nothing: while a
\* pop(k) is suspended between its getItem and its removeItem, set(k, v) and
\* further pop(k) calls run; when it is resumed it removes the entry at
\* prefix + k, also one a set wrote meanwhile, and returns the value it read
\* before, so that pops suspended together on one value all return it.
C23_PopNotAtomic ==
  /\ [](\A p \in BagToSet(pops) :
          /\ \A value \in PlainValues : ENABLED AsyncSet(p.key, value, "ok")
          /\ BagCardinality(pops) < MaxRacingPops => ENABLED RacingPopCall(p.key))
  /\ [][/\ last'.op = "pop"
             => \A p \in BagToSet(pops) :
                  AsyncPopResume(p)
                    => /\ last' = Returned("pop", p.key, p.item, "none")
                       /\ ~MapHas(storage', prefix \o p.key)
                       /\ CopiesIn(p, pops') = CopiesIn(p, pops) - 1
        /\ last'.op = "set" /\ last'.adapter = "ok"
             => \A k \in CallKeys, value \in PlainValues :
                  written'[k] = value /\ AsyncSet(k, value, "ok")
                    => /\ pops' = pops
                       /\ last'.ret = Bool(TRUE)
                       /\ get(k)' = value
        /\ pops' # pops
             => \A k \in Keys :
                  RacingPopCall(k)
                    => /\ storage' = storage
                       /\ CopiesIn([key |-> k, item |-> get(k)], pops')
                            = CopiesIn([key |-> k, item |-> get(k)], pops) + 1]_vars

C23_Witness ==
  /\ CopiesIn([key |-> "a", item |-> Str("hi")], pops) = 2
  /\ last = Returned("set", "a", Bool(TRUE), "ok")
  /\ written["a"] = Num(1)
  /\ get("a") = Num(1)

\* the outcomes in which the adapter's method fails
Failures == SetItemOutcomes \ {"ok"}

\* C24: adapter failures on read, remove and clear are not caught: when
\* adapter.getItem, removeItem or clear throws or rejects, get, pop, remove
\* and clear hand the error to the caller, never null, and the adapter's
\* entries stay as they were; when getItem fails inside pop, removeItem is
\* not called; set never hands an error to the caller: it is the only
\* operation that swallows the adapter's errors.
C24_AdapterFailurePropagates ==
  /\ [](last.ret = Exception => last.op \in {"get", "pop", "remove", "clear"})
  /\ [](last.op = "set" => last.ret \in {Bool(TRUE), Bool(FALSE)})
  /\ [][\A o \in Failures :
          /\ last'.op \in {"get", "remove", "pop", "set"}
               => \A k \in CallKeys :
                    /\ FallibleGet(k, o) \/ FallibleRemove(k, o)
                         => last'.ret = Exception /\ storage' = storage
                    /\ FalliblePop(k, o, "ok")
                         => /\ last'.ret = Exception
                            /\ call'.method = "getItem"
                            /\ storage' = storage /\ pops' = pops
                    /\ FalliblePop(k, "ok", o)
                         => /\ last'.ret = Exception
                            /\ call'.method = "removeItem"
                            /\ storage' = storage
                    /\ (\E p \in BagToSet(pops) : FalliblePopResume(p, o))
                         => last'.ret = Exception /\ storage' = storage
                    /\ (\E value \in TextValues : FacadeSet(k, value, Undefined, o))
                         => last'.ret = Bool(FALSE) /\ storage' = storage
          /\ last'.op = "clear" /\ FallibleClear(o)
               => last'.ret = Exception /\ storage' = storage]_vars

C24_Witness ==
  /\ kind = "async"
  /\ last = Returned("pop", "a", Exception, "none")
  /\ call = AdapterCall("getItem", prefix \o "a", "a", Undefined)
  /\ getItem(storage, prefix \o "a") = Str("hi")
  /\ pops = EmptyBag

\* C25: for every serializer S that encodes null, a get hands the stored
\* text to S.parse unless the text is S.stringify(null), and then, as for a
\* key that holds no text, it returns null without calling S.parse.
C25_NullEncodingNotParsed ==
  last.op = "get" /\ call.method \in {"parse", "getItem"}
                  /\ ~stringify(serializer, Null).threw
    => LET item == getItem(storage, prefix \o last.key) IN
       /\ call.method = "parse"
            <=> item.t = "string" /\ item # stringify(serializer, Null).v
       /\ call.method # "parse" => last.ret = Null

C27_SyncReplaysOverlay ==
  /\ [](sync.state = "resolved" => sync.issued = sync.at)
  /\ [](sync.state # "idle" => Len(sync.issued) <= Len(sync.at)
                                /\ sync.issued = SubSeq(sync.at, 1, Len(sync.issued)))
  /\ [][/\ sync' # sync /\ last' = last
             => /\ cache' = cache
                /\ \A k \in Keys : getCache(k)' = getCache(k)
                /\ sync.state # "awaiting" => sync'.at = cache
                /\ sync'.state = "awaiting"
                     => LET e == sync'.issued[Len(sync'.issued)] IN
                        /\ getItem(storage', e.key) = Str(e.value)
                        /\ getCache(e.key) = Str(e.value)
        /\ cache' # cache
             => \A k \in CallKeys :
                  OrderedIndex(cache, k) # 0 /\ OrderedIndex(cache', k) = 0
                    => RemoveCache(k)]_vars

C27_Witness ==
  /\ prefix = ""
  /\ last = Returned("set", "a", Bool(TRUE), "ok")
  /\ sync.state = "resolved"
  /\ OrderedKeys(sync.issued) = <<"b", "a">>
  /\ getCache("a") = Str("1")
  /\ getItem(storage, "a") = Str("1")

\* p is an initial segment of q
StartsWith(q, p) == Len(p) <= Len(q) /\ SubSeq(q, 1, Len(p)) = p

\* neither prefix is an initial segment of the other
Apart(p, q) == ~StartsWith(q, p) /\ ~StartsWith(p, q)

\* the steps of set, remove and pop through facade f leave what get(k2)
\* returns through the other facade as it was, for every key k2
LeavesOtherFacade ==
  last'.op \in {"set", "remove", "pop"}
    => \A g \in Facades \ {via'}, k2 \in IsolationKeys : getOn(g, k2)' = getOn(g, k2)

\* C28 as stated: two facades on one adapter with different prefixes are
\* isolated: set(k1, v), remove(k1) and pop(k1) through one facade never
\* change what get(k2) returns through the other, for all keys k1 and k2.
C28_PrefixIsolation ==
  [][prefix # prefix2 => LeavesOtherFacade]_vars

\* C28 as amended: two facades on one adapter are isolated when neither
\* prefix is an initial segment of the other: then set(k1, v), remove(k1) and
\* pop(k1) through one facade never change what get(k2) returns through the
\* other, for all keys k1 and k2; clear() of either facade crosses the
\* boundary and leaves every get(k2) of the other facade null.
C28_ApartPrefixIsolation ==
  [][/\ Apart(prefix, prefix2) => LeavesOtherFacade
     /\ last'.op = "clear"
          => \A f \in Facades :
               SharedClear(f)
                 => \A g \in Facades, k2 \in IsolationKeys : getOn(g, k2)' = Null]_vars

C28_Witness ==
  /\ prefix = "ns:"
  /\ prefix2 = "x:"
  /\ getOn("facade", "a") = Num(1)
  /\ getOn("other", "a") = Str("hi")
  /\ via = "facade"
  /\ last = Returned("set", "a", Bool(TRUE), "ok")

\* the adapter's entries at every key but pk are as they were
OnlyAt(pk) ==
  \A x \in (DOMAIN storage \cup DOMAIN storage') \ {pk} :
    getItem(storage', x) = getItem(storage, x)

\* C29: per-key frame: set(k, v), remove(k) and pop(k) change at most the
\* adapter's entry at prefix + k and no overlay entry; get(k), getCache(k),
\* define and defineGroup change no adapter entry and no overlay entry; a
\* set that returns false because stringify threw changes nothing.
C29_PerKeyFrame ==
  [][/\ last'.op \in {"set", "remove", "pop"}
          => \A k \in CallKeys :
               /\ (\/ \E value \in PlainValues, outcome \in DefineOutcomes :
                        FacadeSet(k, value, Undefined, outcome)
                   \/ FacadeRemove(k)
                   \/ FacadePop(k)
                   \/ \E p \in BagToSet(pops) : PopResume(p))
                    => OnlyAt(prefix \o k) /\ cache' = cache
               /\ (\E value \in ThrowsOn[serializer] \cap PlainValues,
                       outcome \in DefineOutcomes :
                      FacadeSet(k, value, Undefined, outcome))
                    => /\ last'.ret = Bool(FALSE)
                       /\ UNCHANGED <<storage, cache, written, pops, call>>
     /\ last'.op \in {"get", "getCache", "define", "defineGroup"}
          => /\ \A k \in CallKeys :
                  \/ FacadeGet(k)
                  \/ GetCache(k)
                  \/ \E c \in {Undefined, DefaultConfig} : DefineCall(k, c)
                    => storage' = storage /\ cache' = cache
             /\ DefineGroupCall(Group) => storage' = storage /\ cache' = cache
     /\ pops' # pops /\ (\E k \in Keys : FacadePop(k))
          => storage' = storage /\ cache' = cache]_vars

C29_Witness ==
  /\ prefix = "ns:"
  /\ last = Returned("pop", "a", Num(1), "none")
  /\ DOMAIN storage = {"a", "ns:b"}
  /\ getItem(storage, "a") = Str("wrong")
  /\ getItem(storage, "ns:b") = Str("hi")
  /\ getCache("a") = Str("1")

\* get(k) of facade f
getOf(f, k) == fromStore(serializer, getItem(StorageOf(f), prefix \o k))

\* getCache(k) of facade f
getCacheOf(f, k) == OrderedGet(OverlayOf(f).cache, k)

\* C30: in-memory state is not shared between instances: a set through one
\* of two BrowserStorage constructed without an adapter changes what get
\* returns through the other for no key, the same prefix and key included;
\* setCache on one of two AsyncBrowserStorage on one async adapter leaves
\* the overlay of the other, what its getCache returns and its syncCache as
\* they were, and every write of a syncCache is an entry of its own overlay.
C30_InstancesShareNothing ==
  [][\A f \in Facades \cap {via'} :
       \A g \in Facades \ {f} :
         /\ last'.op = "set"
              => \A k \in CallKeys, value \in PlainValues :
                   InstanceSet(f, k, value)
                     => /\ getOf(f, k)' = fromStore(serializer, toStore(serializer, value).v)
                        /\ \A k2 \in Keys : getOf(g, k2)' = getOf(g, k2)
         /\ last'.op = "setCache"
              => \A k \in CallKeys, v \in CacheTexts :
                   InstanceSetCache(f, k, v)
                     => /\ Truthy(v) => getCacheOf(f, k)' = v
                        /\ OverlayOf(g)' = OverlayOf(g)
                        /\ \A k2 \in Keys : getCacheOf(g, k2)' = getCacheOf(g, k2)
         /\ storage' # storage /\ kind = "async"
              => /\ OverlayOf(g)' = OverlayOf(g)
                 /\ \E e \in OrderedEntries(OverlayOf(f).cache) :
                      storage' = setItem(storage, e.key, e.value)]_vars

C30_Witness ==
  /\ kind = "sync"
  /\ via = "other"
  /\ last = Returned("get", "a", Null, "none")
  /\ getOf("facade", "a") = Str("hi")
  /\ getOf("other", "a") = Null
  /\ getOf("other", "b") = Num(1)

====
